---------------------------- MODULE Spec2Model ----------------------------
(***************************************************************************)
(* bin_by_funding.py: Binance funding fees and Bybit realized PnL are      *)
(* fetched, normalized into one event list, aggregated per key and written *)
(* to two CSV files.                                                       *)
(*                                                                         *)
(* Conventions of the model                                                *)
(*   - a raw JSON field is a tagged value: a number (or numeric string),   *)
(*     an unparseable string, null, or an absent key;                      *)
(*   - a list of raw Binance records is kept run-length encoded: a run     *)
(*     [rec, n] stands for n consecutive records equal to rec, so that a   *)
(*     page of the real size (limit = 1000) is one or two runs;            *)
(*   - a Decimal is an integer number of units of 10^-11, and the ".10f"   *)
(*     formatting rounds it (half even) to units of 10^-10;                *)
(*   - times are milliseconds counted from main's start date;              *)
(*   - entry names the function the run started in, so each function is    *)
(*     exercised on its own inputs as well as from main.                   *)
(***************************************************************************)
EXTENDS Integers, Sequences, FiniteSets, TLC

VARIABLES
    entry,          \* the function the run entered
    pc,             \* position of the control flow
    exc,            \* the exception that escaped, "" when none
    creds,          \* config.py: which venue's key and secret are set
    venue,          \* the Binance venue: how it answers, the events it holds
    start_ms,       \* get_binance_funding: the caller's start time
    params,         \* get_binance_funding: the request parameters
    all_rows,       \* get_binance_funding: the rows accumulated (runs)
    requests,       \* the params of every request sent to Binance, in order
    pages,          \* every page Binance answered, in order
    settle,         \* get_bybit_realized_raw: index of the next settle coin
    all_positions,  \* get_bybit_realized_raw: the positions accumulated
    bybit_log,      \* outcome of every partition visited, in order
    raw_binance,    \* main / normalize_binance: rows to normalize (runs)
    norm_binance,   \* main: normalized Binance events
    raw_bybit,      \* main / normalize_bybit: positions to normalize
    norm_bybit,     \* main: normalized Bybit events
    rows,           \* main / write_csv: the events to report
    by_key,         \* write_csv: the aggregation, in insertion order
    summary_file,   \* the summary CSV on disk
    details_file    \* the details CSV on disk

vars == <<entry, pc, exc, creds, venue, start_ms, params, all_rows, requests,
          pages, settle, all_positions, bybit_log, raw_binance,
          norm_binance, raw_bybit, norm_bybit, rows, by_key, summary_file,
          details_file>>

--------------------------------------------------------------------------
(* Bounds *)

\* the largest event time the Binance venue holds
MaxTime == 2
\* requests after which a venue that answers arbitrary pages is cut off
MaxRequests == 3
\* the longest event list handed to write_csv on its own
MaxEvents == 3
\* the longest raw list handed to a normalizer on its own
MaxRaw == 2

--------------------------------------------------------------------------
(* Raw JSON values *)

Num(x) == [tag |-> "num", v |-> x]
BadStr == [tag |-> "bad", v |-> 0]
NoneVal == [tag |-> "none", v |-> 0]
Absent == [tag |-> "absent", v |-> 0]

\* the limit of get_binance_funding's params
Limit == 1000

\* int(x) of a raw value: the integer, or a ValueError / TypeError
ParseInt(x) ==
    CASE x.tag = "num" -> [ok |-> TRUE, v |-> x.v, err |-> ""]
      [] x.tag = "bad" -> [ok |-> FALSE, v |-> 0, err |-> "ValueError"]
      [] OTHER -> [ok |-> FALSE, v |-> 0, err |-> "TypeError"]

--------------------------------------------------------------------------
(* Run-length encoded record lists *)

RECURSIVE RunLen(_)
\* len() of a list kept as runs
RunLen(runs) ==
    IF runs = <<>> THEN 0 ELSE Head(runs).n + RunLen(Tail(runs))

RECURSIVE TakeRuns(_, _)
\* the first k records of a list kept as runs
TakeRuns(runs, k) ==
    IF runs = <<>> \/ k = 0 THEN <<>>
    ELSE IF Head(runs).n <= k
         THEN <<Head(runs)>> \o TakeRuns(Tail(runs), k - Head(runs).n)
         ELSE <<[Head(runs) EXCEPT !.n = k]>>

RECURSIVE Records(_)
\* the list itself: every run written out
Records(runs) ==
    IF runs = <<>> THEN <<>>
    ELSE [i \in 1..Head(runs).n |-> Head(runs).rec] \o Records(Tail(runs))


RunsOver(recs, sizes) == [rec : recs, n : sizes]

--------------------------------------------------------------------------
(* The Binance venue *)

\* a funding record as the venue reports it
FundingRec(sym, inc, t) ==
    [incomeType |-> "FUNDING_FEE", symbol |-> sym, asset |-> "USDT",
     income |-> inc, time |-> t]

RECURSIVE FromTime(_, _)
\* the runs whose time is >= the requested startTime (all of them without one)
FromTime(held, st) ==
    IF held = <<>> THEN <<>>
    ELSE IF st.tag = "num" /\ Head(held).rec.time.v < st.v
         THEN FromTime(Tail(held), st)
         ELSE <<Head(held)>> \o FromTime(Tail(held), st)

\* the page of a venue that answers with the earliest events from startTime on
EarliestPage(held, p) == TakeRuns(FromTime(held, p.startTime), p.limit)

\* ways to serve part of one run
PartOf(run) == {k \in {0, 1, 400, 600, 1000} : k <= run.n}

RECURSIVE SubPages(_)
\* every ascending selection from the runs: each run served in part or not at all
SubPages(runs) ==
    IF runs = <<>> THEN {<<>>}
    ELSE LET rest == SubPages(Tail(runs))
         IN  rest \cup
             {<<[Head(runs) EXCEPT !.n = k]>> \o r :
                 k \in PartOf(Head(runs)) \ {0}, r \in rest}

\* the pages of a venue that answers with at most limit of the events it holds
\* from startTime on, in ascending time order
SubsetPages(held, p) ==
    {pg \in SubPages(FromTime(held, p.startTime)) : RunLen(pg) <= p.limit}

\* the page times and run sizes of a venue that answers anything
AnyRuns ==
    RunsOver({FundingRec("BTCUSDT", Num(15), t) : t \in {Num(1), Num(2), BadStr}},
             {400, 600, 1000})

\* the pages of a venue that answers anything, of at most limit records
AnyPages ==
    {<<>>} \cup {<<r>> : r \in AnyRuns}
           \cup {<<r1, r2>> : r1 \in {r \in AnyRuns : r.n < 1000},
                              r2 \in {r \in AnyRuns : r.n < 1000}}

\* what the venue may answer to the request with parameters p
VenuePages(p) ==
    CASE venue.mode = "earliest" -> {EarliestPage(venue.held, p)}
      [] venue.mode = "subset" -> SubsetPages(venue.held, p)
      [] OTHER -> IF Len(requests) < MaxRequests
                  THEN {pg \in AnyPages : RunLen(pg) <= p.limit}
                  ELSE {}

--------------------------------------------------------------------------
(* Control flow helpers *)

fetchVars == <<start_ms, params, all_rows, requests, pages>>
bybitVars == <<settle, all_positions, bybit_log>>
mainVars == <<raw_binance, norm_binance, raw_bybit, norm_bybit, rows>>
writeVars == <<by_key, summary_file, details_file>>
envVars == <<entry, creds, venue>>

\* an exception leaves the running function and, uncaught, main
Raise(e) == pc' = "raised" /\ exc' = e

--------------------------------------------------------------------------
(* get_binance_funding *)

BinanceAlwaysConfigured == TRUE

\* lines 26-29 of binance_signed_request: the credentials check
BinanceConfigured == creds.binance

NextStartStuck(last_time) == last_time

\* line 74: the cursor after a full page whose last record has time last_time
NextStart(last_time) == last_time + 1

\* lines 55-62: the parameters and the empty accumulator
BeginFetch ==
    /\ pc = "f_begin"
    /\ params' = [incomeType |-> "FUNDING_FEE", limit |-> Limit,
                  startTime |-> IF start_ms.tag = "none" THEN Absent
                                ELSE Num(start_ms.v)]
    /\ all_rows' = <<>>
    /\ pc' = "f_loop"
    /\ UNCHANGED <<exc, start_ms, requests, pages>>
    /\ UNCHANGED <<envVars, bybitVars, mainVars, writeVars>>

\* line 76 and, in main, lines 269-270: the rows go back to the caller
ReturnRows(result) ==
    /\ all_rows' = result
    /\ IF entry = "main"
       THEN pc' = "m_norm_binance" /\ raw_binance' = result
       ELSE pc' = "done" /\ UNCHANGED raw_binance
    /\ UNCHANGED <<exc, params>>

IsLastPageOrFull(data, limit) == RunLen(data) <= limit

\* line 70: a page shorter than the limit is the last one
IsLastPage(data, limit) == RunLen(data) < limit

\* lines 65-74: what the loop does with the page data
HandlePage(data) ==
    IF RunLen(data) = 0
    THEN ReturnRows(all_rows)
    ELSE IF IsLastPage(data, params.limit)
    THEN ReturnRows(all_rows \o data)
    ELSE LET last_time == ParseInt(data[Len(data)].rec.time)
         IN  /\ all_rows' = all_rows \o data
             /\ UNCHANGED raw_binance
             /\ IF last_time.ok
                THEN /\ params' = [params EXCEPT
                                     !.startTime = Num(NextStart(last_time.v))]
                     /\ UNCHANGED <<pc, exc>>
                ELSE Raise(last_time.err) /\ UNCHANGED params

\* lines 25-30: without credentials no request is sent
FetchNotConfigured ==
    /\ pc = "f_loop"
    /\ ~BinanceConfigured
    /\ Raise("RuntimeError")
    /\ UNCHANGED <<start_ms, params, all_rows, requests, pages>>
    /\ UNCHANGED <<envVars, bybitVars, mainVars, writeVars>>

\* lines 46-47: the request is sent and the transport fails
FetchTransportError ==
    /\ pc = "f_loop"
    /\ BinanceConfigured
    /\ VenuePages(params) # {}
    /\ requests' = Append(requests, params)
    /\ Raise("HTTPError")
    /\ UNCHANGED <<start_ms, params, all_rows, pages>>
    /\ UNCHANGED <<envVars, bybitVars, mainVars, writeVars>>

\* lines 63-74: one turn of the loop, the request answered with a page
FetchPage ==
    /\ pc = "f_loop"
    /\ BinanceConfigured
    /\ \E data \in VenuePages(params) :
          /\ requests' = Append(requests, params)
          /\ pages' = Append(pages, data)
          /\ HandlePage(data)
    /\ UNCHANGED <<start_ms, norm_binance, raw_bybit, norm_bybit, rows>>
    /\ UNCHANGED <<envVars, bybitVars, writeVars>>


--------------------------------------------------------------------------
(* Decimal and string values *)

\* Decimal(str(x)) of a raw value: units of 10^-11, or InvalidOperation
ParseDecimal(x) ==
    IF x.tag = "num" THEN [ok |-> TRUE, v |-> x.v, err |-> ""]
    ELSE [ok |-> FALSE, v |-> 0, err |-> "InvalidOperation"]

\* format(d, ".10f"): d rounded half even to units of 10^-10
Fmt10(d) ==
    LET q == d \div 10
        r == d % 10
    IN  IF r < 5 THEN q
        ELSE IF r > 5 THEN q + 1
        ELSE IF q % 2 = 0 THEN q ELSE q + 1

\* the code points of the strings that occur
CodePoints(s) ==
    CASE s = "" -> <<>>
      [] s = "BTC" -> <<66, 84, 67>>
      [] s = "BTCUSDT" -> <<66, 84, 67, 85, 83, 68, 84>>
      [] s = "Binance" -> <<66, 105, 110, 97, 110, 99, 101>>
      [] s = "Bybit" -> <<66, 121, 98, 105, 116>>
      [] s = "ETH" -> <<69, 84, 72>>
      [] s = "ETHUSDC" -> <<69, 84, 72, 85, 83, 68, 67>>
      [] s = "ETHUSDT" -> <<69, 84, 72, 85, 83, 68, 84>>
      [] s = "USDT" -> <<85, 83, 68, 84>>
      [] s = "funding" -> <<102, 117, 110, 100, 105, 110, 103>>
      [] s = "realized_pnl" -> <<114, 101, 97, 108, 105, 122, 101, 100, 95, 112, 110, 108>>

RECURSIVE SeqLess(_, _)
\* Python's < on two strings: the first differing code point decides, a
\* proper prefix is smaller
SeqLess(a, b) ==
    IF b = <<>> THEN FALSE
    ELSE IF a = <<>> THEN TRUE
    ELSE IF Head(a) # Head(b) THEN Head(a) < Head(b)
    ELSE SeqLess(Tail(a), Tail(b))

StrLess(s, t) == SeqLess(CodePoints(s), CodePoints(t))

\* symbol.replace("USDT", "").replace("USDC", "") on the symbols that occur
StripSettle(sym) ==
    CASE sym = "BTCUSDT" -> "BTC"
      [] sym = "ETHUSDT" -> "ETH"
      [] sym = "ETHUSDC" -> "ETH"
      [] sym = "USDT" -> ""
      [] OTHER -> sym

--------------------------------------------------------------------------
(* normalize_binance *)

\* r.get("asset", "USDT"): "?" stands for the absent key
AssetOf(r) == IF r.asset = "?" THEN "USDT" ELSE r.asset

\* Decimal(str(r.get("income", "0")))
IncomeOf(r) ==
    IF r.income.tag = "absent" THEN [ok |-> TRUE, v |-> 0, err |-> ""]
    ELSE ParseDecimal(r.income)

\* int(r.get("time", 0))
TimeOf(r) ==
    IF r.time.tag = "absent" THEN [ok |-> TRUE, v |-> 0, err |-> ""]
    ELSE ParseInt(r.time)

\* lines 81-97: one record gives no event, one event, or an exception
NormBinanceRec(r) ==
    IF r.incomeType # "FUNDING_FEE" THEN [err |-> "", val |-> <<>>]
    ELSE IF ~IncomeOf(r).ok THEN [err |-> IncomeOf(r).err, val |-> <<>>]
    ELSE IF ~TimeOf(r).ok THEN [err |-> TimeOf(r).err, val |-> <<>>]
    ELSE [err |-> "",
          val |-> <<[exchange |-> "Binance", symbol |-> r.symbol,
                     asset |-> AssetOf(r), amount |-> IncomeOf(r).v,
                     time |-> TimeOf(r).v, type |-> "funding"]>>]

RECURSIVE normalize_binance(_)
\* lines 78-98: the events of the records, up to the first that raises
normalize_binance(recs) ==
    IF recs = <<>> THEN [err |-> "", val |-> <<>>]
    ELSE LET h == NormBinanceRec(Head(recs))
         IN  IF h.err # "" THEN h
             ELSE LET t == normalize_binance(Tail(recs))
                  IN  IF t.err # "" THEN t
                      ELSE [err |-> "", val |-> h.val \o t.val]

--------------------------------------------------------------------------
(* normalize_bybit *)

\* Decimal(pos.get("curRealisedPnl") or "0"), zero when it cannot be parsed
RealisedOf(pos) ==
    IF pos.curRealisedPnl.tag \in {"absent", "none"} THEN 0
    ELSE IF ParseDecimal(pos.curRealisedPnl).ok
         THEN ParseDecimal(pos.curRealisedPnl).v
         ELSE 0

\* int(pos.get("updatedTime", 0) or 0)
UpdatedOf(pos) ==
    IF pos.updatedTime.tag \in {"absent", "none"}
    THEN [ok |-> TRUE, v |-> 0, err |-> ""]
    ELSE ParseInt(pos.updatedTime)

\* lines 172-201: one position gives no event, one event, or an exception
NormBybitPos(pos) ==
    IF pos.size \in {"", "0", "0.0"} THEN [err |-> "", val |-> <<>>]
    ELSE IF pos.symbol = "" THEN [err |-> "", val |-> <<>>]
    ELSE IF ~UpdatedOf(pos).ok THEN [err |-> UpdatedOf(pos).err, val |-> <<>>]
    ELSE [err |-> "",
          val |-> <<[exchange |-> "Bybit", symbol |-> pos.symbol,
                     asset |-> StripSettle(pos.symbol),
                     amount |-> RealisedOf(pos),
                     time |-> UpdatedOf(pos).v, type |-> "realized_pnl"]>>]

RECURSIVE normalize_bybit(_)
\* lines 169-204: the events of the positions, up to the first that raises
normalize_bybit(positions) ==
    IF positions = <<>> THEN [err |-> "", val |-> <<>>]
    ELSE LET h == NormBybitPos(Head(positions))
         IN  IF h.err # "" THEN h
             ELSE LET t == normalize_bybit(Tail(positions))
                  IN  IF t.err # "" THEN t
                      ELSE [err |-> "", val |-> h.val \o t.val]


\* lines 270-271 of main: the Binance rows are normalized
NormalizeBinance ==
    /\ pc = "m_norm_binance"
    /\ LET res == normalize_binance(Records(raw_binance))
       IN  IF res.err # ""
           THEN Raise(res.err) /\ UNCHANGED norm_binance
           ELSE /\ norm_binance' = res.val
                /\ pc' = IF entry = "main" THEN "b_begin" ELSE "done"
                /\ UNCHANGED exc
    /\ UNCHANGED <<raw_binance, raw_bybit, norm_bybit, rows>>
    /\ UNCHANGED <<envVars, fetchVars, bybitVars, writeVars>>

--------------------------------------------------------------------------
(* get_bybit_realized_raw *)

SettleCoins == <<"USDT", "USDC">>

\* bybit_signed_request: the credentials check
BybitConfigured == creds.bybit

SkippedOnErrorOnly(ans) == ans.err # ""

\* lines 150-161: the partition is skipped on an exception or a retCode # 0
Skipped(ans) == ans.err # "" \/ ans.retCode # 0

\* lines 163-164: (data.get("result") or {}).get("list") or []
PosList(ans) == IF ans.hasResult /\ ans.hasList THEN ans.items ELSE <<>>

\* line 142: the empty accumulator
BeginBybit ==
    /\ pc = "b_begin"
    /\ all_positions' = <<>>
    /\ settle' = 1
    /\ pc' = "b_loop"
    /\ UNCHANGED <<exc, bybit_log>>
    /\ UNCHANGED <<envVars, fetchVars, mainVars, writeVars>>

\* the for loop moves on; after the last settle coin line 167 returns, in
\* main to line 275
NextPartition(positions) ==
    /\ all_positions' = positions
    /\ settle' = settle + 1
    /\ IF settle < Len(SettleCoins)
       THEN UNCHANGED <<pc, raw_bybit>>
       ELSE IF entry = "main"
            THEN pc' = "m_norm_bybit" /\ raw_bybit' = positions
            ELSE pc' = "done" /\ UNCHANGED raw_bybit
    /\ UNCHANGED exc

\* lines 104-109, 150-154: without credentials the request raises before it
\* is sent, and the partition is skipped
BybitNotConfigured ==
    /\ pc = "b_loop"
    /\ ~BybitConfigured
    /\ bybit_log' = Append(bybit_log,
          [settle |-> SettleCoins[settle], sent |-> FALSE,
           ans |-> [err |-> "RuntimeError", retCode |-> 0, hasResult |-> FALSE,
                    hasList |-> FALSE, items |-> <<>>]])
    /\ NextPartition(all_positions)
    /\ UNCHANGED <<raw_binance, norm_binance, norm_bybit, rows>>
    /\ UNCHANGED <<envVars, fetchVars, writeVars>>

\* lines 144-165: one settle coin, the request answered with ans
BybitPartitionWith(ans) ==
    /\ bybit_log' = Append(bybit_log,
          [settle |-> SettleCoins[settle], sent |-> TRUE, ans |-> ans])
    /\ IF Skipped(ans)
       THEN NextPartition(all_positions)
       ELSE NextPartition(all_positions \o PosList(ans))

--------------------------------------------------------------------------
(* write_csv *)

KeyOf(r) == <<r.exchange, r.symbol, r.asset, r.type>>

Min(a, b) == IF a < b THEN a ELSE b
Max(a, b) == IF a > b THEN a ELSE b

AggStepLastWins(bk, r) ==
    LET known == \E i \in 1..Len(bk) : bk[i].key = KeyOf(r)
        bk1 == IF known THEN bk
               ELSE Append(bk, [key |-> KeyOf(r), total |-> 0,
                                first |-> r.time, last |-> r.time,
                                count |-> 0])
        i == CHOOSE j \in 1..Len(bk1) : bk1[j].key = KeyOf(r)
    IN  [bk1 EXCEPT ![i] = [key |-> @.key,
                            total |-> @.total + r.amount,
                            count |-> @.count + 1,
                            first |-> @.first,
                            last |-> r.time]]

\* lines 218-229: one event enters by_key
AggStep(bk, r) ==
    LET known == \E i \in 1..Len(bk) : bk[i].key = KeyOf(r)
        bk1 == IF known THEN bk
               ELSE Append(bk, [key |-> KeyOf(r), total |-> 0,
                                first |-> r.time, last |-> r.time,
                                count |-> 0])
        i == CHOOSE j \in 1..Len(bk1) : bk1[j].key = KeyOf(r)
    IN  [bk1 EXCEPT ![i] = [key |-> @.key,
                            total |-> @.total + r.amount,
                            count |-> @.count + 1,
                            first |-> Min(@.first, r.time),
                            last |-> Max(@.last, r.time)]]

RECURSIVE AggRows(_, _)
\* lines 216-229: the loop over the events
AggRows(bk, rs) ==
    IF rs = <<>> THEN bk ELSE AggRows(AggStep(bk, Head(rs)), Tail(rs))

RECURSIVE KeyLess(_, _)
\* Python's < on two key tuples
KeyLess(a, b) ==
    IF b = <<>> THEN FALSE
    ELSE IF a = <<>> THEN TRUE
    ELSE IF Head(a) # Head(b) THEN StrLess(Head(a), Head(b))
    ELSE KeyLess(Tail(a), Tail(b))

RECURSIVE Insert(_, _)
Insert(sorted, x) ==
    IF sorted = <<>> THEN <<x>>
    ELSE IF KeyLess(x.key, Head(sorted).key) THEN <<x>> \o sorted
    ELSE <<Head(sorted)>> \o Insert(Tail(sorted), x)

UnsortedItems(bk) == bk

RECURSIVE SortedItems(_)
\* line 235: sorted(by_key.items()); the keys are distinct, so the key alone
\* decides every comparison
SortedItems(bk) ==
    IF bk = <<>> THEN <<>>
    ELSE Insert(SortedItems(SubSeq(bk, 1, Len(bk) - 1)), bk[Len(bk)])

\* lines 235-242: the rows of the summary
SummaryRows(bk) ==
    LET items == SortedItems(bk)
    IN  [i \in 1..Len(items) |->
            [exchange |-> items[i].key[1], symbol |-> items[i].key[2],
             asset |-> items[i].key[3], type |-> items[i].key[4],
             total_amount |-> Fmt10(items[i].total),
             periods |-> items[i].count,
             first_time |-> items[i].first,
             last_time |-> items[i].last]]

\* lines 248-256: the rows of the details
DetailsRows(rs) ==
    [i \in 1..Len(rs) |->
        [exchange |-> rs[i].exchange, symbol |-> rs[i].symbol,
         asset |-> rs[i].asset, type |-> rs[i].type,
         amount |-> Fmt10(rs[i].amount), time |-> rs[i].time]]

NoFile == [state |-> "absent", header |-> FALSE, rows |-> <<>>]

\* a file whose writing failed: created and empty, or the header and some of
\* the rows
PartialFiles(rs) ==
    {[state |-> "partial", header |-> FALSE, rows |-> <<>>]} \cup
    {[state |-> "partial", header |-> TRUE, rows |-> SubSeq(rs, 1, k)] :
        k \in 0..(Len(rs) - 1)}

CompleteFile(rs) == [state |-> "complete", header |-> TRUE, rows |-> rs]

\* lines 281-284 of main: the two lists are joined and write_csv is called
MainRows ==
    /\ pc = "m_rows"
    /\ rows' = norm_binance \o norm_bybit
    /\ pc' = "w_makedirs"
    /\ UNCHANGED <<exc, raw_binance, norm_binance, raw_bybit, norm_bybit>>
    /\ UNCHANGED <<envVars, fetchVars, bybitVars, writeVars>>

\* line 211: os.makedirs
WriteMakedirs ==
    /\ pc = "w_makedirs"
    /\ pc' = "w_aggregate"
    /\ UNCHANGED <<exc, envVars, fetchVars, bybitVars, mainVars, writeVars>>

\* line 211: os.makedirs fails
WriteMakedirsFails ==
    /\ pc = "w_makedirs"
    /\ Raise("OSError")
    /\ UNCHANGED <<envVars, fetchVars, bybitVars, mainVars, writeVars>>

\* lines 216-229: the aggregation
WriteAggregate ==
    /\ pc = "w_aggregate"
    /\ by_key' = AggRows(<<>>, rows)
    /\ pc' = "w_summary"
    /\ UNCHANGED <<exc, summary_file, details_file>>
    /\ UNCHANGED <<envVars, fetchVars, bybitVars, mainVars>>

\* line 232: the summary file cannot be opened
WriteSummaryOpenFails ==
    /\ pc = "w_summary"
    /\ Raise("OSError")
    /\ UNCHANGED <<envVars, fetchVars, bybitVars, mainVars, writeVars>>

\* lines 232-242: writing the summary fails part way
WriteSummaryFails ==
    /\ pc = "w_summary"
    /\ summary_file' \in PartialFiles(SummaryRows(by_key))
    /\ Raise("OSError")
    /\ UNCHANGED <<by_key, details_file>>
    /\ UNCHANGED <<envVars, fetchVars, bybitVars, mainVars>>

\* lines 232-242: the summary is written
WriteSummary ==
    /\ pc = "w_summary"
    /\ summary_file' = CompleteFile(SummaryRows(by_key))
    /\ pc' = "w_details"
    /\ UNCHANGED <<exc, by_key, details_file>>
    /\ UNCHANGED <<envVars, fetchVars, bybitVars, mainVars>>

\* line 245: the details file cannot be opened
WriteDetailsOpenFails ==
    /\ pc = "w_details"
    /\ Raise("OSError")
    /\ UNCHANGED <<envVars, fetchVars, bybitVars, mainVars, writeVars>>

\* lines 245-256: writing the details fails part way
WriteDetailsFails ==
    /\ pc = "w_details"
    /\ details_file' \in PartialFiles(DetailsRows(rows))
    /\ Raise("OSError")
    /\ UNCHANGED <<by_key, summary_file>>
    /\ UNCHANGED <<envVars, fetchVars, bybitVars, mainVars>>

\* lines 245-258: the details are written and write_csv returns
WriteDetails ==
    /\ pc = "w_details"
    /\ details_file' = CompleteFile(DetailsRows(rows))
    /\ pc' = "done"
    /\ UNCHANGED <<exc, by_key, summary_file>>
    /\ UNCHANGED <<envVars, fetchVars, bybitVars, mainVars>>


--------------------------------------------------------------------------
(* The Bybit venue *)

Position(size, sym, pnl, t) ==
    [size |-> size, symbol |-> sym, curRealisedPnl |-> pnl, updatedTime |-> t]

OpenBTC == Position("0.5", "BTCUSDT", Num(15), Num(1))
OpenETH == Position("1", "ETHUSDC", Num(-5), Num(2))
ClosedBTC == Position("0", "BTCUSDT", Num(4), Num(2))
BadTimeETH == Position("1", "ETHUSDC", Num(4), BadStr)

Answer(err, code, hasResult, hasList, items) ==
    [err |-> err, retCode |-> code, hasResult |-> hasResult,
     hasList |-> hasList, items |-> items]

\* what /v5/position/list may answer: a transport error, an error code (with
\* or without a list), a body without result or list, a list of positions
BybitAnswers ==
    {Answer("HTTPError", 0, FALSE, FALSE, <<>>),
     Answer("", 10001, TRUE, TRUE, <<>>),
     Answer("", 10001, TRUE, TRUE, <<OpenBTC>>),
     Answer("", 0, FALSE, FALSE, <<>>),
     Answer("", 0, TRUE, FALSE, <<>>),
     Answer("", 0, TRUE, TRUE, <<>>),
     Answer("", 0, TRUE, TRUE, <<OpenETH>>),
     Answer("", 0, TRUE, TRUE, <<BadTimeETH>>),
     Answer("", 0, TRUE, TRUE, <<OpenBTC, ClosedBTC, OpenETH>>)}

\* lines 144-165: one turn of the loop over the settle coins
BybitPartition ==
    /\ pc = "b_loop"
    /\ BybitConfigured
    /\ \E ans \in BybitAnswers : BybitPartitionWith(ans)
    /\ UNCHANGED <<raw_binance, norm_binance, norm_bybit, rows>>
    /\ UNCHANGED <<envVars, fetchVars, writeVars>>

\* lines 274-279 of main: the positions are normalized; main catches a
\* RuntimeError and goes on without Bybit events
NormalizeBybit ==
    /\ pc = "m_norm_bybit"
    /\ LET res == normalize_bybit(raw_bybit)
       IN  IF res.err = ""
           THEN /\ norm_bybit' = res.val
                /\ pc' = IF entry = "main" THEN "m_rows" ELSE "done"
                /\ UNCHANGED exc
           ELSE IF entry = "main" /\ res.err = "RuntimeError"
           THEN norm_bybit' = <<>> /\ pc' = "m_rows" /\ UNCHANGED exc
           ELSE Raise(res.err) /\ UNCHANGED norm_bybit
    /\ UNCHANGED <<raw_binance, norm_binance, raw_bybit, rows>>
    /\ UNCHANGED <<envVars, fetchVars, bybitVars, writeVars>>

--------------------------------------------------------------------------
(* Inputs *)

Times == 1..MaxTime

RECURSIVE HeldUpTo(_)
\* the event sets a venue may hold: for each time none, one, 400 or 1000
\* events, kept in ascending time order
HeldUpTo(t) ==
    IF t = 0 THEN {<<>>}
    ELSE LET before == HeldUpTo(t - 1)
         IN  before \cup
             {h \o <<[rec |-> FundingRec("BTCUSDT", Num(15), Num(t)), n |-> k]>> :
                 h \in before, k \in {1, 400, 1000}}

\* the venue and start time of a get_binance_funding call on its own
FetchInputs ==
    [venue : [mode : {"any"}, held : {<<>>}], start_ms : {Num(0)}]
    \cup [venue : [mode : {"earliest", "subset"}, held : HeldUpTo(MaxTime)],
          start_ms : {NoneVal} \cup {Num(t) : t \in 0..MaxTime}]

\* main's start_ms, the start date itself
MainStartMs == Num(0)

One(r) == [rec |-> r, n |-> 1]

\* what the venue holds in a run of main: a few events, one of them with an
\* income that is no number
MainHeld ==
    {<<>>,
     <<One(FundingRec("BTCUSDT", Num(15), Num(1)))>>,
     <<One(FundingRec("BTCUSDT", Num(15), Num(1))),
       One(FundingRec("ETHUSDT", Num(-5), Num(2)))>>,
     <<One(FundingRec("BTCUSDT", Num(15), Num(1))),
       One(FundingRec("BTCUSDT", BadStr, Num(2)))>>}

\* the raw records handed to normalize_binance on its own
RawBinanceRecs ==
    [incomeType : {"FUNDING_FEE"}, symbol : {"BTCUSDT"}, asset : {"USDT"},
     income : {Num(15), BadStr, NoneVal, Absent},
     time : {Num(1), BadStr, NoneVal, Absent}]
    \cup {[incomeType |-> "FUNDING_FEE", symbol |-> "ETHUSDT", asset |-> "?",
           income |-> Num(-5), time |-> Num(2)],
          [incomeType |-> "COMMISSION", symbol |-> "BTCUSDT", asset |-> "USDT",
           income |-> BadStr, time |-> BadStr]}

\* the positions handed to normalize_bybit on its own
RawBybitPositions ==
    [size : {"0.5"}, symbol : {"BTCUSDT"},
     curRealisedPnl : {Num(15), BadStr, NoneVal, Absent},
     updatedTime : {Num(1), BadStr, NoneVal, Absent}]
    \cup {Position(sz, "BTCUSDT", BadStr, BadStr) : sz \in {"", "0", "0.0"}}
    \cup {Position("0.5", "", BadStr, BadStr), OpenETH}

\* the events handed to write_csv on its own
Event(ex, sym, asset, typ, amt, t) ==
    [exchange |-> ex, symbol |-> sym, asset |-> asset, amount |-> amt,
     time |-> t, type |-> typ]

EventKeys ==
    {<<"Binance", "ETHUSDT", "USDT", "funding">>,
     <<"Binance", "BTCUSDT", "USDT", "funding">>,
     <<"Binance", "BTCUSDT", "BTC", "funding">>,
     <<"Bybit", "BTCUSDT", "BTC", "realized_pnl">>,
     <<"Bybit", "BTCUSDT", "BTC", "funding">>}

\* two amounts and times under each Binance USDT key, one under the others
Events ==
    {Event(k[1], k[2], k[3], k[4], at[1], at[2]) :
        k \in {e \in EventKeys : e[3] = "USDT"},
        at \in {<<15, 100>>, <<-5, 200>>}}
    \cup {Event(k[1], k[2], k[3], k[4], 4, 150) :
             k \in {e \in EventKeys : e[3] # "USDT"}}

SeqsUpTo(S, n) == UNION {[1..m -> S] : m \in 0..n}

Entries ==
    {"main", "get_binance_funding", "normalize_binance",
     "get_bybit_realized_raw", "normalize_bybit", "write_csv"}

StartPc(e) ==
    CASE e = "main" -> "f_begin"
      [] e = "get_binance_funding" -> "f_begin"
      [] e = "normalize_binance" -> "m_norm_binance"
      [] e = "get_bybit_realized_raw" -> "b_begin"
      [] e = "normalize_bybit" -> "m_norm_bybit"
      [] e = "write_csv" -> "w_makedirs"

NoParams == [incomeType |-> "", limit |-> 0, startTime |-> Absent]

Init ==
    /\ entry \in Entries
    /\ pc = StartPc(entry)
    /\ exc = ""
    /\ creds \in
          CASE entry = "main" -> [binance : BOOLEAN, bybit : BOOLEAN]
            [] entry = "get_binance_funding" -> [binance : BOOLEAN, bybit : {TRUE}]
            [] entry = "get_bybit_realized_raw" -> [binance : {TRUE}, bybit : BOOLEAN]
            [] OTHER -> [binance : {TRUE}, bybit : {TRUE}]
    /\ \E inp \in
          CASE entry = "main" ->
                  [venue : [mode : {"earliest"}, held : MainHeld],
                   start_ms : {MainStartMs}]
            [] entry = "get_binance_funding" -> FetchInputs
            [] OTHER -> [venue : [mode : {"earliest"}, held : {<<>>}],
                         start_ms : {NoneVal}] :
          venue = inp.venue /\ start_ms = inp.start_ms
    /\ params = NoParams
    /\ all_rows = <<>>
    /\ requests = <<>>
    /\ pages = <<>>
    /\ settle = 1
    /\ all_positions = <<>>
    /\ bybit_log = <<>>
    /\ raw_binance \in
          IF entry = "normalize_binance"
          THEN SeqsUpTo({One(r) : r \in RawBinanceRecs}, MaxRaw)
          ELSE {<<>>}
    /\ norm_binance = <<>>
    /\ raw_bybit \in
          IF entry = "normalize_bybit"
          THEN SeqsUpTo(RawBybitPositions, MaxRaw)
          ELSE {<<>>}
    /\ norm_bybit = <<>>
    /\ rows \in IF entry = "write_csv" THEN SeqsUpTo(Events, MaxEvents) ELSE {<<>>}
    /\ by_key = <<>>
    /\ summary_file = NoFile
    /\ details_file = NoFile

Next ==
    \/ BeginFetch
    \/ FetchNotConfigured
    \/ FetchTransportError
    \/ FetchPage
    \/ NormalizeBinance
    \/ BeginBybit
    \/ BybitNotConfigured
    \/ BybitPartition
    \/ NormalizeBybit
    \/ MainRows
    \/ WriteMakedirs
    \/ WriteMakedirsFails
    \/ WriteAggregate
    \/ WriteSummaryOpenFails
    \/ WriteSummaryFails
    \/ WriteSummary
    \/ WriteDetailsOpenFails
    \/ WriteDetailsFails
    \/ WriteDetails

Spec == Init /\ [][Next]_vars

\* get_binance_funding on its own against a venue that keeps to "at most
\* limit events, all from startTime on, in ascending time order"
FetchInit == Init /\ entry = "get_binance_funding" /\ venue.mode # "any"

FetchNext ==
    \/ BeginFetch
    \/ FetchNotConfigured
    \/ FetchTransportError
    \/ FetchPage

\* the loop is sequential and every request returns or raises (the request
\* has a timeout), so a turn of the loop that can be taken is taken
FetchFairSpec == FetchInit /\ [][FetchNext]_vars /\ WF_vars(FetchNext)


--------------------------------------------------------------------------
(* Properties of get_binance_funding *)

RECURSIVE Concat(_)
Concat(ss) == IF ss = <<>> THEN <<>> ELSE Head(ss) \o Concat(Tail(ss))

UsesFetch == entry \in {"get_binance_funding", "main"}

\* get_binance_funding has returned its rows
FetchReturned == UsesFetch /\ pc \notin {"f_begin", "f_loop", "raised"}

PageSizes == [i \in 1..Len(pages) |-> RunLen(pages[i])]

\* C1: get_binance_funding stops at the first page that is empty or shorter
\* than the limit. Every page but the last received is full; one request is
\* sent per page (and one more only when that request fails in transport);
\* after a short or empty page no request follows and the loop is left; the
\* rows accumulated are the pages received, concatenated in order, and that
\* is what is returned.
C1_StopsAtFirstShortPage ==
    UsesFetch =>
        /\ \A i \in 1..(Len(pages) - 1) : PageSizes[i] >= 1000
        /\ Len(requests) \in {Len(pages), Len(pages) + 1}
        /\ Len(requests) = Len(pages) + 1 => pc = "raised" /\ exc = "HTTPError"
        /\ all_rows = Concat(pages)
        /\ pc = "f_loop" => \A i \in 1..Len(pages) : PageSizes[i] >= 1000
        /\ (pages # <<>> /\ PageSizes[Len(pages)] < 1000) =>
              pc # "f_loop" /\ Len(requests) = Len(pages)
        /\ FetchReturned =>
              /\ pages # <<>>
              /\ PageSizes[Len(pages)] < 1000
              /\ Len(requests) = Len(pages)

\* pages of 1000, 1000 and 400 records: 2400 records after 3 requests
C1_Witness ==
    /\ entry = "get_binance_funding"
    /\ pc = "done"
    /\ PageSizes = <<1000, 1000, 400>>
    /\ Len(requests) = 3
    /\ RunLen(all_rows) = 2400

\* the startTime a request carries when the caller gave start_ms
FirstStart == IF start_ms.tag = "none" THEN Absent ELSE Num(start_ms.v)

\* C2: the first request carries the caller's start time as startTime (none
\* when the caller gave none); request n+1 carries the time of the last
\* record of page n, plus one; incomeType and limit are the same in every
\* request.
C2_CursorAdvance ==
    UsesFetch =>
        /\ requests # <<>> => requests[1].startTime = FirstStart
        /\ \A n \in 1..(Len(requests) - 1) :
              requests[n + 1].startTime =
                  Num(pages[n][Len(pages[n])].rec.time.v + 1)
        /\ \A n \in 1..Len(requests) :
              requests[n].incomeType = "FUNDING_FEE" /\ requests[n].limit = 1000

\* three requests, the caller's start time in the first, the cursor moved
\* twice to different places
C2_Witness ==
    /\ entry = "get_binance_funding"
    /\ start_ms = Num(0)
    /\ Len(requests) = 3
    /\ requests[1].startTime = Num(0)
    /\ requests[2].startTime = Num(3)
    /\ requests[3].startTime = Num(2)

RECURSIVE CountAt(_, _)
\* how many records of the runs carry time t
CountAt(runs, t) ==
    IF runs = <<>> THEN 0
    ELSE (IF Head(runs).rec.time = Num(t) THEN Head(runs).n ELSE 0)
         + CountAt(Tail(runs), t)

\* C3: against a venue that answers each request with the earliest events
\* from startTime on, a call that returns normally returns every event with
\* time >= the caller's start time exactly once, events that share a
\* timestamp included.
C3_FetchComplete ==
    (entry = "get_binance_funding" /\ venue.mode = "earliest" /\ pc = "done") =>
        \A t \in Times :
            CountAt(all_rows, t) = CountAt(FromTime(venue.held, FirstStart), t)

\* the venue keeps to "at most limit events, all from startTime on, ascending"
HonestVenue == entry = "get_binance_funding" /\ venue.mode # "any"

FetchExited == pc \in {"done", "raised"}

\* C10: against a venue that holds finitely many events and answers with at
\* most limit of them, all from startTime on and in ascending time order, the
\* loop of get_binance_funding exits: the cursor grows with every full page,
\* no more than MaxTime + 1 requests are sent, and the call returns or raises.
C10_Terminates ==
    /\ [][(HonestVenue /\ params.startTime.tag = "num"
             /\ params'.startTime # params.startTime)
          => params'.startTime.v > params.startTime.v]_vars
    /\ [](HonestVenue => Len(requests) <= MaxTime + 1)
    /\ (HonestVenue ~> FetchExited)

\* a call against such a venue that returned after several full pages
C10_Witness ==
    /\ HonestVenue
    /\ venue.mode = "subset"
    /\ pc = "done"
    /\ Len(requests) = MaxTime + 1


--------------------------------------------------------------------------
(* Properties of get_bybit_realized_raw *)

\* a partition succeeded: its request raised nothing and answered retCode 0
Succeeded(e) == e.ans.err = "" /\ e.ans.retCode = 0

RECURSIVE SucceededPositions(_)
\* the position lists of the partitions that succeeded, in partition order
SucceededPositions(log) ==
    IF log = <<>> THEN <<>>
    ELSE (IF Succeeded(Head(log)) /\ Head(log).ans.hasResult
             /\ Head(log).ans.hasList
          THEN Head(log).ans.items ELSE <<>>)
         \o SucceededPositions(Tail(log))

\* C4: partition isolation. The partitions are visited in the order USDT,
\* USDC; one whose request raises or answers retCode # 0 adds nothing and the
\* next one is still visited; the function never raises; its result is the
\* concatenation, in partition order, of the position lists of the
\* partitions that succeeded.
C4_PartitionIsolation ==
    entry = "get_bybit_realized_raw" =>
        /\ pc # "raised"
        /\ Len(bybit_log) <= 2
        /\ \A i \in 1..Len(bybit_log) : bybit_log[i].settle = SettleCoins[i]
        /\ pc = "b_loop" => Len(bybit_log) < 2
        /\ pc = "done" => Len(bybit_log) = 2
        /\ pc \in {"b_loop", "done"} =>
              all_positions = SucceededPositions(bybit_log)

\* USDT fails, USDC answers three positions: exactly those three are returned
C4_Witness ==
    /\ entry = "get_bybit_realized_raw"
    /\ pc = "done"
    /\ ~Succeeded(bybit_log[1])
    /\ Succeeded(bybit_log[2])
    /\ Len(bybit_log[2].ans.items) = 3
    /\ all_positions = bybit_log[2].ans.items

--------------------------------------------------------------------------
(* Properties of main *)

MainEnded == entry = "main" /\ pc \in {"done", "raised"}

\* C5: output is all-or-nothing. A run of main that ends with an exception
\* has created no output file; at the end of any run, if either file exists
\* both are complete.
C5_AllOrNothing ==
    /\ (entry = "main" /\ pc = "raised") =>
          summary_file.state = "absent" /\ details_file.state = "absent"
    /\ (MainEnded /\ (summary_file.state # "absent"
                        \/ details_file.state # "absent")) =>
          summary_file.state = "complete" /\ details_file.state = "complete"

\* C6: without the Bybit credentials main goes on: no Bybit request is sent,
\* Bybit contributes no event, no exception comes out of the Bybit steps, and
\* a report that is written holds the Binance events alone. Without the
\* Binance credentials main ends with a RuntimeError before any request to
\* either venue and before anything is written.
C6_ConfigAsymmetry ==
    entry = "main" =>
        /\ (creds.binance /\ ~creds.bybit) =>
              /\ \A i \in 1..Len(bybit_log) : ~bybit_log[i].sent
              /\ raw_bybit = <<>> /\ norm_bybit = <<>>
              /\ pc = "raised" => bybit_log = <<>> \/ exc = "OSError"
              /\ pc \in {"w_makedirs", "w_aggregate", "w_summary", "w_details",
                         "done"} => rows = norm_binance
              /\ pc = "done" =>
                    /\ details_file = CompleteFile(DetailsRows(norm_binance))
                    /\ summary_file.state = "complete"
        /\ ~creds.binance =>
              /\ pc \in {"f_begin", "f_loop", "raised"}
              /\ pc = "raised" => exc = "RuntimeError"
              /\ requests = <<>> /\ bybit_log = <<>>
              /\ summary_file = NoFile /\ details_file = NoFile

\* Bybit is not configured and the report of two Binance events is written
C6_Witness ==
    /\ entry = "main"
    /\ creds.binance /\ ~creds.bybit
    /\ pc = "done"
    /\ Len(bybit_log) = 2
    /\ Len(details_file.rows) = 2

\* C7: a malformed record never aborts the run: no exception escapes
\* normalize_binance or normalize_bybit, whatever the records hold.
C7_NormalizersNeverRaise ==
    entry \in {"normalize_binance", "normalize_bybit"} => pc # "raised"


--------------------------------------------------------------------------
(* Properties of write_csv *)

\* the aggregation loop of write_csv has run
Aggregated == pc \in {"w_summary", "w_details", "done"}

KeysIn(rs) == {KeyOf(rs[i]) : i \in 1..Len(rs)}

\* the events of rs that carry key k, in order
WithKey(rs, k) == SelectSeq(rs, LAMBDA r : KeyOf(r) = k)

RECURSIVE SumAmount(_)
SumAmount(rs) == IF rs = <<>> THEN 0 ELSE Head(rs).amount + SumAmount(Tail(rs))

RECURSIVE SumCount(_)
SumCount(bk) == IF bk = <<>> THEN 0 ELSE Head(bk).count + SumCount(Tail(bk))

TimesOf(rs) == {rs[i].time : i \in 1..Len(rs)}

\* C8: aggregation correctness. by_key has one entry for each distinct key
\* of the input and none for another key; the entry's total is the sum of
\* the amounts of the events with that key, its count their number, first
\* the least and last the greatest of their times; the counts add up to the
\* number of events; the summary written has one row per entry, carrying the
\* key, the total in ".10f" form, the count, first and last.
C8_AggregationCorrect ==
    Aggregated =>
        /\ {by_key[i].key : i \in 1..Len(by_key)} = KeysIn(rows)
        /\ Len(by_key) = Cardinality(KeysIn(rows))
        /\ \A i \in 1..Len(by_key) :
              LET evs == WithKey(rows, by_key[i].key)
              IN  /\ by_key[i].total = SumAmount(evs)
                  /\ by_key[i].count = Len(evs)
                  /\ by_key[i].first \in TimesOf(evs)
                  /\ by_key[i].last \in TimesOf(evs)
                  /\ \A t \in TimesOf(evs) :
                        by_key[i].first <= t /\ t <= by_key[i].last
        /\ SumCount(by_key) = Len(rows)
        /\ summary_file.state = "complete" =>
              /\ Len(summary_file.rows) = Len(by_key)
              /\ \A i \in 1..Len(by_key) :
                    \E j \in 1..Len(summary_file.rows) :
                        LET row == summary_file.rows[j]
                        IN  /\ <<row.exchange, row.symbol, row.asset, row.type>>
                                  = by_key[i].key
                            /\ row.total_amount = Fmt10(by_key[i].total)
                            /\ row.periods = by_key[i].count
                            /\ row.first_time = by_key[i].first
                            /\ row.last_time = by_key[i].last

\* -5 at t=200, then +15 at t=100, under one key: total 10, count 2,
\* first 100, last 200
C8_Witness ==
    /\ entry = "write_csv"
    /\ pc = "done"
    /\ rows = <<Event("Binance", "BTCUSDT", "USDT", "funding", -5, 200),
                Event("Binance", "BTCUSDT", "USDT", "funding", 15, 100)>>
    /\ by_key = <<[key |-> <<"Binance", "BTCUSDT", "USDT", "funding">>,
                   total |-> 10, count |-> 2, first |-> 100, last |-> 200]>>
    /\ Len(summary_file.rows) = 1

\* row a comes before row b: exchange, then symbol, then asset, then type
RowBefore(a, b) ==
    \/ StrLess(a.exchange, b.exchange)
    \/ /\ a.exchange = b.exchange
       /\ \/ StrLess(a.symbol, b.symbol)
          \/ /\ a.symbol = b.symbol
             /\ \/ StrLess(a.asset, b.asset)
                \/ a.asset = b.asset /\ StrLess(a.type, b.type)

PermutationsOf(n) == {f \in [1..n -> 1..n] : \A i, j \in 1..n : f[i] = f[j] => i = j}

\* C9: deterministic summary ordering. The summary rows written are in
\* strictly ascending lexicographic order of (exchange, symbol, asset, type),
\* and every permutation of the input events gives the same summary rows in
\* the same order.
C9_DeterministicOrder ==
    summary_file.state # "absent" =>
        /\ \A i \in 1..(Len(summary_file.rows) - 1) :
              RowBefore(summary_file.rows[i], summary_file.rows[i + 1])
        /\ summary_file.state = "complete" =>
              \A f \in PermutationsOf(Len(rows)) :
                  SummaryRows(AggRows(<<>>, [i \in 1..Len(rows) |-> rows[f[i]]]))
                      = summary_file.rows

\* three events of three keys, handed over in descending key order, written
\* in ascending key order
C9_Witness ==
    /\ entry = "write_csv"
    /\ summary_file.state = "complete"
    /\ Len(rows) = 3
    /\ Len(summary_file.rows) = 3
    /\ \A i \in 1..2 : KeyLess(KeyOf(rows[i + 1]), KeyOf(rows[i]))

==========================================================================
